---------------------------- MODULE Spec2Model ----------------------------
(***************************************************************************)
(* A model of the Wordle clone: the guess evaluator (evaluateGuess) and    *)
(* the game session driven by the page's event handlers (key clicks,       *)
(* physical keydowns, the restart and hint buttons, message timers).       *)
(*                                                                         *)
(* Every function of the script is an operator from a state record to a    *)
(* state record, named as in the source; an action applies the handler of  *)
(* one event to the current state.  A word is a sequence of one-character  *)
(* strings; positions are 1-based here and 0-based in the source.          *)
(*                                                                         *)
(* Of the DOM the model keeps what the script reads back or what a claim   *)
(* is about: the text of the tiles of the current row (the only tiles      *)
(* getCurrentGuess, addLetter and deleteLetter touch; rows above are empty *)
(* since buildBoard, rows below are never read again) and the text of the  *)
(* message element.  CSS classes and disabled attributes are written and   *)
(* never read by the script and are left out.                              *)
(***************************************************************************)
EXTENDS Integers, Sequences, FiniteSets

NUM_ROWS == 6
NUM_COLS == 5

\* Bounds of the exploration.
MaxGames == 2     \* games finished (endGame calls) in one run
MaxTimers == 1    \* clearMessage callbacks pending at once

\* The letters the player types in the game specification.
Letters == {"A", "B"}
\* The letters of the words handed to the evaluator specification.
EvalLetters == {"A", "B", "C"}

\* The answer list: a short stand-in over Letters for the list of words.js.
ANSWER_WORDS == << <<"A", "A", "B", "A", "B">>, <<"B", "B", "B", "B", "B">> >>

\* The list of allowed guesses: the answers and, as in words.js, some more.
GUESS_WORDS == ANSWER_WORDS \o << <<"A", "B", "A", "B", "A">> >>

UPPER == <<"A", "B", "C", "D", "E", "F", "G", "H", "I", "J", "K", "L", "M",
           "N", "O", "P", "Q", "R", "S", "T", "U", "V", "W", "X", "Y", "Z">>
LOWER == <<"a", "b", "c", "d", "e", "f", "g", "h", "i", "j", "k", "l", "m",
           "n", "o", "p", "q", "r", "s", "t", "u", "v", "w", "x", "y", "z">>

\* The upper-case letter of each lower-case letter.
UpperOf == [ch \in {LOWER[i] : i \in 1..26} |-> UPPER[CHOOSE i \in 1..26 : LOWER[i] = ch]]
UpperLetters == {UPPER[i] : i \in 1..26}

\* String.prototype.toUpperCase on one character.
toUpperCase(ch) == IF ch \in DOMAIN UpperOf THEN UpperOf[ch] ELSE ch

\* key.length === 1 && key.match(/[a-zA-Z]/)
IsLetterKey(key) == key \in UpperLetters \/ key \in DOMAIN UpperOf
\* key.length === 1 && key.match(/[A-Z]/)
IsUpperKey(key) == key \in UpperLetters

VARIABLES
    loaded,                       \* DOMContentLoaded has run
    secretWord, currentRow, currentCol, isGameOver,
    hasAttachedKeyboardListeners, hasUsedHint,
    gamesPlayed, gamesWon, currentStreak,
    keyStatuses,                  \* letter -> best status; a letter without one is outside the domain
    rowTiles,                     \* text of the tiles of row currentRow, by column 1..NUM_COLS
    message,                      \* textContent of #message
    pendingClears,                \* clearMessage callbacks scheduled and not yet run
    keydownListeners,             \* keydown listeners attached to the document
    evalGuess, evalSecret, evalResult   \* the evaluator specification's input and output

gameVars == <<loaded, secretWord, currentRow, currentCol, isGameOver,
              hasAttachedKeyboardListeners, hasUsedHint, gamesPlayed, gamesWon,
              currentStreak, keyStatuses, rowTiles, message, pendingClears,
              keydownListeners>>

vars == <<gameVars, evalGuess, evalSecret, evalResult>>

-----------------------------------------------------------------------------
(* The evaluator *)

priority == [correct |-> 3, present |-> 2, absent |-> 1]

\* letterCounts after the loop over secretChars; a letter the secret lacks
\* reads as undefined in the source, and undefined > 0 is false, like 0 > 0.
LetterCountsOf(secret) ==
    [c \in {toUpperCase(secret[i]) : i \in 1..Len(secret)} |->
        Cardinality({i \in 1..Len(secret) : toUpperCase(secret[i]) = c})]

CountOf(counts, g) == IF g \in DOMAIN counts THEN counts[g] ELSE 0

\* FirstPass without the decrement of the matched letter's count.
RECURSIVE FirstPassNoDecrement(_, _, _, _)
FirstPassNoDecrement(i, guess, secret, acc) ==
    IF i > NUM_COLS THEN acc
    ELSE LET g == toUpperCase(guess[i])
             s == toUpperCase(secret[i])
         IN  IF g = s
             THEN FirstPassNoDecrement(i + 1, guess, secret,
                     [result |-> [acc.result EXCEPT ![i] = "correct"],
                      counts |-> acc.counts])
             ELSE FirstPassNoDecrement(i + 1, guess, secret, acc)

\* First pass: mark correct positions.
RECURSIVE FirstPass(_, _, _, _)
FirstPass(i, guess, secret, acc) ==
    IF i > NUM_COLS THEN acc
    ELSE LET g == toUpperCase(guess[i])
             s == toUpperCase(secret[i])
         IN  IF g = s
             THEN FirstPass(i + 1, guess, secret,
                     [result |-> [acc.result EXCEPT ![i] = "correct"],
                      counts |-> [acc.counts EXCEPT ![g] = @ - 1]])
             ELSE FirstPass(i + 1, guess, secret, acc)

\* SecondPass without the skip of the positions already marked correct.
RECURSIVE SecondPassNoSkip(_, _, _)
SecondPassNoSkip(i, guess, acc) ==
    IF i > NUM_COLS THEN acc
    ELSE LET g == toUpperCase(guess[i])
         IN  IF CountOf(acc.counts, g) > 0
             THEN SecondPassNoSkip(i + 1, guess,
                     [result |-> [acc.result EXCEPT ![i] = "present"],
                      counts |-> [acc.counts EXCEPT ![g] = @ - 1]])
             ELSE SecondPassNoSkip(i + 1, guess,
                     [result |-> [acc.result EXCEPT ![i] = "absent"],
                      counts |-> acc.counts])

\* SecondPass that walks the guess from its last letter to its first.
RECURSIVE SecondPassRightToLeft(_, _, _)
SecondPassRightToLeft(i, guess, acc) ==
    IF i > NUM_COLS THEN acc
    ELSE LET k == NUM_COLS + 1 - i
         IN  IF acc.result[k] = "correct" THEN SecondPassRightToLeft(i + 1, guess, acc)
             ELSE LET g == toUpperCase(guess[k])
                  IN  IF CountOf(acc.counts, g) > 0
                      THEN SecondPassRightToLeft(i + 1, guess,
                              [result |-> [acc.result EXCEPT ![k] = "present"],
                               counts |-> [acc.counts EXCEPT ![g] = @ - 1]])
                      ELSE SecondPassRightToLeft(i + 1, guess,
                              [result |-> [acc.result EXCEPT ![k] = "absent"],
                               counts |-> acc.counts])

\* Second pass: mark present letters.
RECURSIVE SecondPass(_, _, _)
SecondPass(i, guess, acc) ==
    IF i > NUM_COLS THEN acc
    ELSE IF acc.result[i] = "correct" THEN SecondPass(i + 1, guess, acc)
    ELSE LET g == toUpperCase(guess[i])
         IN  IF CountOf(acc.counts, g) > 0
             THEN SecondPass(i + 1, guess,
                     [result |-> [acc.result EXCEPT ![i] = "present"],
                      counts |-> [acc.counts EXCEPT ![g] = @ - 1]])
             ELSE SecondPass(i + 1, guess,
                     [result |-> [acc.result EXCEPT ![i] = "absent"],
                      counts |-> acc.counts])

\* evaluateGuess with its two arguments taken in the other order.
evaluateGuessSwapped(guess, secret) ==
    SecondPass(1, secret,
        FirstPass(1, secret, guess,
            [result |-> [i \in 1..NUM_COLS |-> "absent"],
             counts |-> LetterCountsOf(guess)])).result

evaluateGuess(guess, secret) ==
    SecondPass(1, guess,
        FirstPass(1, guess, secret,
            [result |-> [i \in 1..NUM_COLS |-> "absent"],
             counts |-> LetterCountsOf(secret)])).result

-----------------------------------------------------------------------------
(* The state record and the functions of the script *)

Cur == [loaded |-> loaded, secretWord |-> secretWord, currentRow |-> currentRow,
        currentCol |-> currentCol, isGameOver |-> isGameOver,
        hasAttachedKeyboardListeners |-> hasAttachedKeyboardListeners,
        hasUsedHint |-> hasUsedHint, gamesPlayed |-> gamesPlayed,
        gamesWon |-> gamesWon, currentStreak |-> currentStreak,
        keyStatuses |-> keyStatuses, rowTiles |-> rowTiles, message |-> message,
        pendingClears |-> pendingClears, keydownListeners |-> keydownListeners]

Msg(kind, arg) == [kind |-> kind, arg |-> arg]
NoMessage == Msg("", <<>>)
NotEnoughLetters == Msg("Not enough letters", <<>>)
NotInWordList == Msg("Not in word list", <<>>)
YouWon == Msg("You won!", <<>>)
YouLost(word) == Msg("You lost. The word was", word)
HintMessage(letter) == Msg("Hint: The word starts with", <<letter>>)

EmptyRow == [c \in 1..NUM_COLS |-> ""]
NoStatuses == [l \in {} |-> "absent"]

showMessage(s, text) == [s EXCEPT !.message = text]

clearMessage(s) == showMessage(s, NoMessage)

showTemporaryMessage(s, text) ==
    [showMessage(s, text) EXCEPT !.pendingClears = @ + 1]

\* document.querySelector finds a tile for the rows and columns buildBoard made.
TileExists(row, col) == row \in 0..(NUM_ROWS - 1) /\ col \in 0..(NUM_COLS - 1)

attachKeyboardListeners(s) == [s EXCEPT !.keydownListeners = @ + 1]

\* initGame that leaves hasUsedHint as the last game left it.
initGameKeepHint(s, randomIndex) ==
    IF Len(ANSWER_WORDS) = 0 THEN s
    ELSE LET reset == [s EXCEPT !.secretWord =
                                    [i \in 1..Len(ANSWER_WORDS[randomIndex + 1]) |->
                                        toUpperCase(ANSWER_WORDS[randomIndex + 1][i])],
                                !.currentRow = 0,
                                !.currentCol = 0,
                                !.isGameOver = FALSE,
                                !.keyStatuses = NoStatuses,
                                !.rowTiles = EmptyRow]
             attached == IF ~reset.hasAttachedKeyboardListeners
                         THEN [attachKeyboardListeners(reset) EXCEPT
                                  !.hasAttachedKeyboardListeners = TRUE]
                         ELSE reset
         IN  clearMessage(attached)

\* initGame that counts a game left unfinished as a game lost.
initGameCountAbandoned(s, randomIndex) ==
    IF Len(ANSWER_WORDS) = 0 THEN s
    ELSE LET abandoned == s.secretWord # <<>> /\ ~s.isGameOver
             reset == [s EXCEPT !.secretWord =
                                    [i \in 1..Len(ANSWER_WORDS[randomIndex + 1]) |->
                                        toUpperCase(ANSWER_WORDS[randomIndex + 1][i])],
                                !.currentRow = 0,
                                !.currentCol = 0,
                                !.isGameOver = FALSE,
                                !.hasUsedHint = FALSE,
                                !.gamesPlayed = IF abandoned THEN @ + 1 ELSE @,
                                !.currentStreak = IF abandoned THEN 0 ELSE @,
                                !.keyStatuses = NoStatuses,
                                !.rowTiles = EmptyRow]
             attached == IF ~reset.hasAttachedKeyboardListeners
                         THEN [attachKeyboardListeners(reset) EXCEPT
                                  !.hasAttachedKeyboardListeners = TRUE]
                         ELSE reset
         IN  clearMessage(attached)

\* initGame that attaches the keyboard listeners on every call.
initGameAttachAlways(s, randomIndex) ==
    IF Len(ANSWER_WORDS) = 0 THEN s
    ELSE LET reset == [s EXCEPT !.secretWord =
                                    [i \in 1..Len(ANSWER_WORDS[randomIndex + 1]) |->
                                        toUpperCase(ANSWER_WORDS[randomIndex + 1][i])],
                                !.currentRow = 0,
                                !.currentCol = 0,
                                !.isGameOver = FALSE,
                                !.hasUsedHint = FALSE,
                                !.keyStatuses = NoStatuses,
                                !.rowTiles = EmptyRow]
             attached == [attachKeyboardListeners(reset) EXCEPT
                             !.hasAttachedKeyboardListeners = TRUE]
         IN  clearMessage(attached)

initGame(s, randomIndex) ==
    IF Len(ANSWER_WORDS) = 0 THEN s
    ELSE LET reset == [s EXCEPT !.secretWord =
                                    [i \in 1..Len(ANSWER_WORDS[randomIndex + 1]) |->
                                        toUpperCase(ANSWER_WORDS[randomIndex + 1][i])],
                                !.currentRow = 0,
                                !.currentCol = 0,
                                !.isGameOver = FALSE,
                                !.hasUsedHint = FALSE,
                                !.keyStatuses = NoStatuses,
                                !.rowTiles = EmptyRow]
             attached == IF ~reset.hasAttachedKeyboardListeners
                         THEN [attachKeyboardListeners(reset) EXCEPT
                                  !.hasAttachedKeyboardListeners = TRUE]
                         ELSE reset
         IN  clearMessage(attached)

\* addLetter that moves to the next column without writing the tile.
addLetterSkipTile(s, letter) ==
    IF s.currentCol >= NUM_COLS \/ s.currentRow >= NUM_ROWS THEN s
    ELSE [s EXCEPT !.currentCol = @ + 1]

addLetter(s, letter) ==
    IF s.currentCol >= NUM_COLS \/ s.currentRow >= NUM_ROWS THEN s
    ELSE IF ~TileExists(s.currentRow, s.currentCol) THEN s
    ELSE [s EXCEPT !.rowTiles[s.currentCol + 1] = letter,
                   !.currentCol = @ + 1]

\* deleteLetter without the test for an empty row.
deleteLetterNoGuard(s) ==
    LET back == [s EXCEPT !.currentCol = @ - 1]
    IN  IF ~TileExists(back.currentRow, back.currentCol) THEN back
        ELSE [back EXCEPT !.rowTiles[back.currentCol + 1] = ""]

\* deleteLetter that steps back without emptying the tile.
deleteLetterKeepText(s) ==
    IF s.currentCol = 0 \/ s.currentRow >= NUM_ROWS THEN s
    ELSE [s EXCEPT !.currentCol = @ - 1]

deleteLetter(s) ==
    IF s.currentCol = 0 \/ s.currentRow >= NUM_ROWS THEN s
    ELSE LET back == [s EXCEPT !.currentCol = @ - 1]
         IN  IF ~TileExists(back.currentRow, back.currentCol) THEN back
             ELSE [back EXCEPT !.rowTiles[back.currentCol + 1] = ""]

RECURSIVE GuessFrom(_, _)
GuessFrom(s, col) ==
    IF col >= NUM_COLS THEN <<>>
    ELSE IF ~TileExists(s.currentRow, col) \/ s.rowTiles[col + 1] = ""
    THEN GuessFrom(s, col + 1)
    ELSE <<toUpperCase(s.rowTiles[col + 1])>> \o GuessFrom(s, col + 1)

getCurrentGuess(s) == GuessFrom(s, 0)

\* isValidGuess that looks the guess up in GUESS_WORDS.
isValidGuessInList(guess) ==
    Len(guess) = NUM_COLS /\ \E i \in 1..Len(GUESS_WORDS) : GUESS_WORDS[i] = guess

isValidGuess(guess) == Len(guess) = NUM_COLS

\* updateKeyStatus without the comparison of priorities.
updateKeyStatusOverwrite(s, letter, newStatus) ==
    [s EXCEPT !.keyStatuses =
        [l \in (DOMAIN s.keyStatuses) \cup {letter} |->
            IF l = letter THEN newStatus ELSE s.keyStatuses[l]]]

updateKeyStatus(s, letter, newStatus) ==
    IF letter \notin DOMAIN s.keyStatuses
       \/ priority[newStatus] > priority[s.keyStatuses[letter]]
    THEN [s EXCEPT !.keyStatuses =
            [l \in (DOMAIN s.keyStatuses) \cup {letter} |->
                IF l = letter THEN newStatus ELSE s.keyStatuses[l]]]
    ELSE s

RECURSIVE RevealFrom(_, _, _, _, _)
RevealFrom(s, row, guess, evaluation, col) ==
    IF col >= NUM_COLS THEN s
    ELSE IF ~TileExists(row, col) THEN RevealFrom(s, row, guess, evaluation, col + 1)
    ELSE RevealFrom(updateKeyStatus(s, toUpperCase(guess[col + 1]), evaluation[col + 1]),
                    row, guess, evaluation, col + 1)

revealEvaluation(s, row, guess, evaluation) == RevealFrom(s, row, guess, evaluation, 0)

\* endGame that leaves the streak alone after a loss.
endGameKeepStreak(s, didWin) ==
    LET counted == [s EXCEPT !.isGameOver = TRUE,
                             !.gamesPlayed = @ + 1,
                             !.gamesWon = IF didWin THEN @ + 1 ELSE @,
                             !.currentStreak = IF didWin THEN @ + 1 ELSE @]
    IN  IF didWin THEN showMessage(counted, YouWon)
        ELSE showMessage(counted, YouLost(counted.secretWord))

endGame(s, didWin) ==
    LET counted == [s EXCEPT !.isGameOver = TRUE,
                             !.gamesPlayed = @ + 1,
                             !.gamesWon = IF didWin THEN @ + 1 ELSE @,
                             !.currentStreak = IF didWin THEN @ + 1 ELSE 0]
    IN  IF didWin THEN showMessage(counted, YouWon)
        ELSE showMessage(counted, YouLost(counted.secretWord))

\* submitGuess that tests the row limit before it tests for the win.
submitGuessLimitFirst(s) ==
    IF s.currentCol < NUM_COLS THEN showTemporaryMessage(s, NotEnoughLetters)
    ELSE LET guess == getCurrentGuess(s)
         IN  IF ~isValidGuess(guess) THEN showTemporaryMessage(s, NotInWordList)
             ELSE LET evaluation == evaluateGuess(guess, s.secretWord)
                      revealed == revealEvaluation(s, s.currentRow, guess, evaluation)
                      next == [revealed EXCEPT !.currentRow = @ + 1,
                                               !.currentCol = 0,
                                               !.rowTiles = EmptyRow]
                  IN  IF next.currentRow = NUM_ROWS THEN endGame(next, FALSE)
                      ELSE IF guess = s.secretWord THEN endGame(revealed, TRUE)
                      ELSE next

\* submitGuess that takes a row of fewer than NUM_COLS letters as it is.
submitGuessNoLengthTest(s) ==
    LET guess == getCurrentGuess(s)
        next == [s EXCEPT !.currentRow = @ + 1, !.currentCol = 0, !.rowTiles = EmptyRow]
    IN  IF Len(guess) = NUM_COLS /\ guess = s.secretWord THEN endGame(s, TRUE)
        ELSE IF next.currentRow = NUM_ROWS THEN endGame(next, FALSE)
        ELSE next

\* submitGuess without the return that follows endGame(true).
submitGuessNoReturnAfterWin(s) ==
    IF s.currentCol < NUM_COLS THEN showTemporaryMessage(s, NotEnoughLetters)
    ELSE LET guess == getCurrentGuess(s)
         IN  IF ~isValidGuess(guess) THEN showTemporaryMessage(s, NotInWordList)
             ELSE LET evaluation == evaluateGuess(guess, s.secretWord)
                      revealed == revealEvaluation(s, s.currentRow, guess, evaluation)
                      ended == IF guess = s.secretWord THEN endGame(revealed, TRUE)
                               ELSE revealed
                      next == [ended EXCEPT !.currentRow = @ + 1,
                                            !.currentCol = 0,
                                            !.rowTiles = EmptyRow]
                  IN  IF next.currentRow = NUM_ROWS THEN endGame(next, FALSE)
                      ELSE next

submitGuess(s) ==
    IF s.currentCol < NUM_COLS THEN showTemporaryMessage(s, NotEnoughLetters)
    ELSE LET guess == getCurrentGuess(s)
         IN  IF ~isValidGuess(guess) THEN showTemporaryMessage(s, NotInWordList)
             ELSE LET evaluation == evaluateGuess(guess, s.secretWord)
                      revealed == revealEvaluation(s, s.currentRow, guess, evaluation)
                  IN  IF guess = s.secretWord THEN endGame(revealed, TRUE)
                      ELSE LET next == [revealed EXCEPT !.currentRow = @ + 1,
                                                        !.currentCol = 0,
                                                        !.rowTiles = EmptyRow]
                           IN  IF next.currentRow = NUM_ROWS THEN endGame(next, FALSE)
                               ELSE next

\* handleKey without the test of isGameOver.
handleKeyNoGuard(s, key) ==
    IF key = "Enter" THEN submitGuess(s)
    ELSE IF key = "Backspace" THEN deleteLetter(s)
    ELSE IF IsUpperKey(key) THEN addLetter(s, key)
    ELSE s

\* handleKey that tests isGameOver for the letter and Backspace keys only.
handleKeyGuardEditing(s, key) ==
    IF key = "Enter" THEN submitGuess(s)
    ELSE IF s.isGameOver THEN s
    ELSE IF key = "Backspace" THEN deleteLetter(s)
    ELSE IF IsUpperKey(key) THEN addLetter(s, key)
    ELSE s

handleKey(s, key) ==
    IF s.isGameOver THEN s
    ELSE IF key = "Enter" THEN submitGuess(s)
    ELSE IF key = "Backspace" THEN deleteLetter(s)
    ELSE IF IsUpperKey(key) THEN addLetter(s, key)
    ELSE s

\* The keydown listener attachKeyboardListeners adds to the document.
keydownListener(s, key) ==
    IF s.isGameOver THEN s
    ELSE IF IsLetterKey(key) THEN handleKey(s, toUpperCase(key))
    ELSE IF key = "Enter" \/ key = "Backspace" THEN handleKey(s, key)
    ELSE s

\* handleHint without the test of hasUsedHint.
handleHintEveryCall(s) ==
    IF s.isGameOver \/ s.secretWord = <<>> THEN s
    ELSE LET used == [s EXCEPT !.hasUsedHint = TRUE]
         IN  showMessage(used, HintMessage(used.secretWord[1]))

handleHint(s) ==
    IF s.isGameOver \/ s.hasUsedHint \/ s.secretWord = <<>> THEN s
    ELSE LET used == [s EXCEPT !.hasUsedHint = TRUE]
         IN  showMessage(used, HintMessage(used.secretWord[1]))

-----------------------------------------------------------------------------
(* The events *)

\* The event leaves the script in state t.
Commit(t) ==
    /\ t.pendingClears <= MaxTimers
    /\ loaded' = t.loaded
    /\ secretWord' = t.secretWord
    /\ currentRow' = t.currentRow
    /\ currentCol' = t.currentCol
    /\ isGameOver' = t.isGameOver
    /\ hasAttachedKeyboardListeners' = t.hasAttachedKeyboardListeners
    /\ hasUsedHint' = t.hasUsedHint
    /\ gamesPlayed' = t.gamesPlayed
    /\ gamesWon' = t.gamesWon
    /\ currentStreak' = t.currentStreak
    /\ keyStatuses' = t.keyStatuses
    /\ rowTiles' = t.rowTiles
    /\ message' = t.message
    /\ pendingClears' = t.pendingClears
    /\ keydownListeners' = t.keydownListeners
    /\ UNCHANGED <<evalGuess, evalSecret, evalResult>>

\* data-key of the buttons buildKeyboard makes, over Letters.
ClickKeys == Letters \cup {"Enter", "Backspace"}
\* event.key of a keydown: a lower-case letter, an upper-case letter, the two
\* control keys, and a key the listener ignores.
KeydownKeys == {"a", "B", "Enter", "Backspace", "Shift"}

\* The DOMContentLoaded handler: the first initGame and the button listeners.
DOMContentLoaded ==
    /\ ~loaded
    /\ \E randomIndex \in 0..(Len(ANSWER_WORDS) - 1) :
          Commit([initGame(Cur, randomIndex) EXCEPT !.loaded = TRUE])

\* A click on the restart button.
RestartClick ==
    /\ loaded
    /\ gamesPlayed < MaxGames
    /\ \E randomIndex \in 0..(Len(ANSWER_WORDS) - 1) :
          Commit(initGame(Cur, randomIndex))

\* A click on the key `key` of the on-screen keyboard.
KeyClickOn(key) == loaded /\ Commit(handleKey(Cur, key))

KeyClick == \E key \in ClickKeys : KeyClickOn(key)

\* The document runs every keydown listener attached to it, one after another.
RECURSIVE RunKeydownListeners(_, _, _)
RunKeydownListeners(s, key, n) ==
    IF n = 0 THEN s ELSE RunKeydownListeners(keydownListener(s, key), key, n - 1)

\* A keydown of `key` on the physical keyboard.
KeyDownOn(key) == Commit(RunKeydownListeners(Cur, key, keydownListeners))

KeyDown == \E key \in KeydownKeys : KeyDownOn(key)

\* A click on the hint button.
HintClick ==
    /\ loaded
    /\ Commit(handleHint(Cur))

\* A timer of showTemporaryMessage runs out.
TimerFires ==
    /\ pendingClears > 0
    /\ Commit([clearMessage(Cur) EXCEPT !.pendingClears = @ - 1])

InitGame ==
    /\ loaded = FALSE
    /\ secretWord = <<>>
    /\ currentRow = 0
    /\ currentCol = 0
    /\ isGameOver = FALSE
    /\ hasAttachedKeyboardListeners = FALSE
    /\ hasUsedHint = FALSE
    /\ gamesPlayed = 0
    /\ gamesWon = 0
    /\ currentStreak = 0
    /\ keyStatuses = NoStatuses
    /\ rowTiles = EmptyRow
    /\ message = NoMessage
    /\ pendingClears = 0
    /\ keydownListeners = 0

Init ==
    /\ InitGame
    /\ evalGuess = <<>>
    /\ evalSecret = <<>>
    /\ evalResult = <<>>

Next ==
    \/ DOMContentLoaded
    \/ RestartClick
    \/ KeyClick
    \/ KeyDown
    \/ HintClick
    \/ TimerFires

Spec == Init /\ [][Next]_vars

-----------------------------------------------------------------------------
(* The evaluator on its own *)

\* The words handed to the evaluator: every word over EvalLetters and the
\* words of the documented examples.
CRANE == <<"C", "R", "A", "N", "E">>
TRACE == <<"T", "R", "A", "C", "E">>
SPEED == <<"S", "P", "E", "E", "D">>
ERASE == <<"E", "R", "A", "S", "E">>
EvalWords == [1..NUM_COLS -> EvalLetters] \cup {CRANE, TRACE, SPEED, ERASE}

\* One call evaluateGuess(evalGuess, evalSecret).
Evaluate ==
    /\ evalResult = <<>>
    /\ evalResult' = evaluateGuess(evalGuess, evalSecret)
    /\ UNCHANGED <<gameVars, evalGuess, evalSecret>>

InitEval ==
    /\ InitGame
    /\ evalGuess \in EvalWords
    /\ evalSecret \in EvalWords
    /\ evalResult = <<>>

NextEval == Evaluate

SpecEval == InitEval /\ [][NextEval]_vars

-----------------------------------------------------------------------------
(* Claims about the evaluator, under SpecEval *)

Evaluated == evalResult # <<>>

\* The positions of word w that hold letter l.
Positions(w, l) == {i \in 1..Len(w) : w[i] = l}
LettersOf(w) == {w[i] : i \in 1..Len(w)}

\* C1: evaluateGuess(G, S) marks position i "correct" if and only if
\* G[i] = S[i]; evaluateGuess(S, S) is "correct" at all five positions.
C1_CorrectIffEqual ==
    Evaluated =>
        /\ Len(evalResult) = NUM_COLS
        /\ \A i \in 1..NUM_COLS :
              (evalResult[i] = "correct") <=> (evalGuess[i] = evalSecret[i])
        /\ (evalGuess = evalSecret) =>
              (\A i \in 1..NUM_COLS : evalResult[i] = "correct")

\* A guess that repeats a letter, right at one position and wrong at another.
C1_Witness ==
    /\ Evaluated
    /\ evalGuess # evalSecret
    /\ \E i, j \in 1..NUM_COLS :
          /\ i < j
          /\ evalGuess[i] = evalGuess[j]
          /\ evalGuess[i] # evalSecret[i]
          /\ evalGuess[j] = evalSecret[j]
          /\ evalResult[j] = "correct"

\* C2: for every letter L, the positions of G holding L that are marked
\* "correct" or "present" are never more than the occurrences of L in S.
C2_NoOverCredit ==
    Evaluated =>
        \A l \in LettersOf(evalGuess) :
            Cardinality({i \in Positions(evalGuess, l) :
                            evalResult[i] \in {"correct", "present"}})
                <= Cardinality(Positions(evalSecret, l))

\* The guess holds a letter more often than the secret does: an early copy
\* is marked absent because a later copy, in its right place, takes the credit.
C2_Witness ==
    /\ Evaluated
    /\ \E l \in LettersOf(evalGuess) :
          /\ Cardinality(Positions(evalGuess, l)) > Cardinality(Positions(evalSecret, l))
          /\ Cardinality(Positions(evalSecret, l)) >= 1
          /\ \E i, j \in Positions(evalGuess, l) :
                i < j /\ evalResult[i] = "absent" /\ evalResult[j] = "correct"

\* C3 as stated: secret CRANE, guess TRACE gives
\* [absent, correct, present, present, correct].
C3_AsStated ==
    (Evaluated /\ evalGuess = TRACE /\ evalSecret = CRANE) =>
        evalResult = <<"absent", "correct", "present", "present", "correct">>

\* C3 amended: secret CRANE, guess TRACE gives
\* [absent, correct, correct, present, correct]: the A of TRACE stands where
\* the A of CRANE stands.
C3_CraneTrace ==
    (Evaluated /\ evalGuess = TRACE /\ evalSecret = CRANE) =>
        evalResult = <<"absent", "correct", "correct", "present", "correct">>

C3_Witness ==
    /\ Evaluated
    /\ evalGuess = TRACE
    /\ evalSecret = CRANE
    /\ evalResult[3] = "correct"

Min(a, b) == IF a < b THEN a ELSE b

\* C15: for every letter L of the guess, the positions holding L that are
\* marked "correct" or "present" number min(count of L in G, count of L in
\* S); the "present" marks go to the leftmost positions holding L that are
\* not "correct", and every other position holding L is "absent".
C15_MinCountLeftmostPresent ==
    Evaluated =>
        \A l \in LettersOf(evalGuess) :
            LET holding == Positions(evalGuess, l)
                correct == {i \in holding : evalResult[i] = "correct"}
                present == {i \in holding : evalResult[i] = "present"}
                absent == {i \in holding : evalResult[i] = "absent"}
            IN  /\ holding = correct \cup present \cup absent
                /\ Cardinality(correct) + Cardinality(present)
                      = Min(Cardinality(holding), Cardinality(Positions(evalSecret, l)))
                /\ \A i \in present : \A j \in absent : i < j

\* The guess holds a letter three times out of place and the secret holds it
\* once: the first copy is present, the two after it absent, although one of
\* them stands after a position marked correct.
C15_Witness ==
    /\ Evaluated
    /\ \E l \in LettersOf(evalGuess) :
          /\ Cardinality(Positions(evalSecret, l)) = 1
          /\ \E i, j, k \in Positions(evalGuess, l) :
                /\ i < j /\ j < k
                /\ evalResult[i] = "present"
                /\ evalResult[j] = "absent"
                /\ evalResult[k] = "absent"
                /\ \E m \in (i + 1)..(k - 1) : evalResult[m] = "correct"

-----------------------------------------------------------------------------
(* Claims about the game session, under Spec *)

\* An Enter key, clicked or pressed.
EnterStep == KeyClickOn("Enter") \/ KeyDownOn("Enter")

\* The states an Enter key, clicked or pressed, can leave the script in.
AfterEnter == {handleKey(Cur, "Enter"), RunKeydownListeners(Cur, "Enter", keydownListeners)}

\* The states a key of the two keyboards can leave the script in.
AfterAnyKey ==
    {handleKey(Cur, key) : key \in ClickKeys}
        \cup {RunKeydownListeners(Cur, key, keydownListeners) : key \in KeydownKeys}

Active == loaded /\ ~isGameOver

Rank(statuses, l) == IF l \in DOMAIN statuses THEN priority[statuses[l]] ELSE 0

FirstAnswer == ANSWER_WORDS[1]

\* C4: between two initGame calls the status of a letter in keyStatuses
\* never moves down in the order correct > present > absent.
C4_KeyStatusNeverDowngrades ==
    [][ \/ \A l \in DOMAIN keyStatuses :
              Rank(keyStatuses', l) >= Rank(keyStatuses, l)
        \/ RestartClick
        \/ DOMContentLoaded ]_vars

\* The first guess of a game was BBBBB against AABAB: the B in its place made
\* the key "correct", and the B that followed it, marked "absent", did not
\* undo that.
C4_Witness ==
    /\ secretWord = FirstAnswer
    /\ currentRow = 1
    /\ currentCol = 0
    /\ DOMAIN keyStatuses = {"B"}
    /\ keyStatuses["B"] = "correct"

\* C5: submitGuess with currentCol < NUM_COLS shows "Not enough letters" and
\* leaves currentRow, currentCol, isGameOver, hasUsedHint, keyStatuses and
\* the counters unchanged.
C5_IncompleteGuessLeavesState ==
    (Active /\ currentCol < NUM_COLS) =>
        \A t \in AfterEnter \cup {submitGuess(Cur)} :
            /\ t.message = NotEnoughLetters
            /\ t.pendingClears = pendingClears + 1
            /\ t.currentRow = currentRow
            /\ t.currentCol = currentCol
            /\ t.isGameOver = isGameOver
            /\ t.hasUsedHint = hasUsedHint
            /\ t.keyStatuses = keyStatuses
            /\ t.gamesPlayed = gamesPlayed
            /\ t.gamesWon = gamesWon
            /\ t.currentStreak = currentStreak

\* Enter on a row of three letters, in the third row, after a hint.
C5_Witness ==
    /\ message = NotEnoughLetters
    /\ pendingClears = 1
    /\ currentRow = 2
    /\ currentCol = 3
    /\ hasUsedHint
    /\ ~isGameOver

\* A full row that does not hold the secret is submitted.
LosingSubmission ==
    /\ Active
    /\ currentCol = NUM_COLS
    /\ getCurrentGuess(Cur) # secretWord
    /\ EnterStep

\* C6: currentRow counts the unsuccessful submissions of the game (only they
\* and initGame change it), the game stays Active and the counters stay as
\* they are before the NUM_ROWS-th one, and the NUM_ROWS-th one ends the game
\* as a loss: gamesPlayed one more, gamesWon unchanged, currentStreak 0.
C6_LossAfterMaxRows ==
    /\ [](Active /\ currentCol = NUM_COLS /\ getCurrentGuess(Cur) # secretWord =>
            \A t \in AfterEnter :
                /\ t.currentRow = currentRow + 1
                /\ t.isGameOver = (currentRow = NUM_ROWS - 1))
    /\ [][ /\ (Active /\ ~isGameOver') =>
                 UNCHANGED <<gamesPlayed, gamesWon, currentStreak>>
           /\ (currentRow' # currentRow) =>
                 \/ currentRow' = currentRow + 1 /\ LosingSubmission
                 \/ currentRow' = 0 /\ (RestartClick \/ DOMContentLoaded)
           /\ (Active /\ currentCol = NUM_COLS /\ isGameOver') =>
                 IF getCurrentGuess(Cur) = secretWord
                 THEN currentRow' = currentRow
                 ELSE /\ currentRow = NUM_ROWS - 1
                      /\ currentRow' = NUM_ROWS
                      /\ message' = YouLost(secretWord)
                      /\ gamesPlayed' = gamesPlayed + 1
                      /\ gamesWon' = gamesWon
                      /\ currentStreak' = 0 ]_vars

\* A game lost right after a game won: the loss takes the streak from 1 to 0.
C6_Witness ==
    /\ isGameOver
    /\ currentRow = NUM_ROWS
    /\ message = YouLost(secretWord)
    /\ gamesPlayed = 2
    /\ gamesWon = 1
    /\ currentStreak = 0

\* C7: in every reachable state 0 <= currentCol <= NUM_COLS and
\* 0 <= currentRow <= NUM_ROWS.
C7_RowColInRange ==
    /\ currentCol \in 0..NUM_COLS
    /\ currentRow \in 0..NUM_ROWS

\* The last tile of the last row is filled.
C7_Witness ==
    /\ currentRow = NUM_ROWS - 1
    /\ currentCol = NUM_COLS
    /\ ~isGameOver

C9_WinOnAnyRow ==
    (Active /\ currentCol = NUM_COLS /\ getCurrentGuess(Cur) = secretWord) =>
        \A t \in AfterEnter \cup {submitGuess(Cur)} :
            /\ t.isGameOver
            /\ t.message = YouWon
            /\ t.gamesPlayed = gamesPlayed + 1
            /\ t.gamesWon = gamesWon + 1
            /\ t.currentStreak = currentStreak + 1
            /\ t.currentRow = currentRow

\* The secret guessed on the last row, in the second game won in a row.
C9_Witness ==
    /\ isGameOver
    /\ currentRow = NUM_ROWS - 1
    /\ message = YouWon
    /\ gamesWon = 2
    /\ currentStreak = 2

\* C10 as stated: every call of handleHint in a game shows the first letter
\* of the secret.
C10_AsStated ==
    Active => handleHint(Cur).message = HintMessage(secretWord[1])

\* C10 amended: in an Active game the first call of handleHint shows the
\* first letter of the secret and sets hasUsedHint, changing nothing else;
\* every later call in that game shows nothing and changes no state.
C10_HintOnlyOnce ==
    Active =>
        IF ~hasUsedHint
        THEN handleHint(Cur) = [Cur EXCEPT !.hasUsedHint = TRUE,
                                           !.message = HintMessage(secretWord[1])]
        ELSE handleHint(Cur) = Cur

\* The hint was used and is no longer on display: a call of handleHint now
\* shows nothing.
C10_Witness ==
    /\ Active
    /\ hasUsedHint
    /\ currentRow > 0
    /\ message # HintMessage(secretWord[1])

RandomIndexes == 0..(Len(ANSWER_WORDS) - 1)

HintUnavailable == isGameOver \/ hasUsedHint \/ secretWord = <<>>

\* C11: handleHint changes nothing and shows no letter when the game is over,
\* when the hint was used in this game or when no secret is set; otherwise it
\* sets hasUsedHint and shows secretWord[0], leaving currentRow, currentCol,
\* keyStatuses and the counters alone.  A hint is shown only by a step that
\* takes hasUsedHint from false to true, and only initGame takes it back to
\* false, so a game shows at most one hint and every new game has its own.
C11_HintNoOpOrReveal ==
    /\ [](LET t == handleHint(Cur)
          IN  /\ HintUnavailable => t = Cur
              /\ ~HintUnavailable =>
                    /\ t.hasUsedHint
                    /\ t.message = HintMessage(secretWord[1])
                    /\ t.currentRow = currentRow
                    /\ t.currentCol = currentCol
                    /\ t.keyStatuses = keyStatuses
                    /\ t.isGameOver = isGameOver
                    /\ t.secretWord = secretWord
                    /\ t.gamesPlayed = gamesPlayed
                    /\ t.gamesWon = gamesWon
                    /\ t.currentStreak = currentStreak
              /\ \A randomIndex \in RandomIndexes :
                    ~initGame(Cur, randomIndex).hasUsedHint)
    /\ [][ /\ (hasUsedHint /\ ~hasUsedHint') => RestartClick
           /\ (message' # message /\ message'.kind = HintMessage("A").kind) =>
                 /\ ~hasUsedHint
                 /\ hasUsedHint'
                 /\ message' = HintMessage(secretWord[1]) ]_vars

\* The hint of the second game is on display: the first game was finished,
\* with its hint used, and initGame made the hint available again.
C11_Witness ==
    /\ Active
    /\ gamesPlayed = 1
    /\ hasUsedHint
    /\ message = HintMessage(secretWord[1])
    /\ currentRow = 1

InGuessWords(word) == \E i \in 1..Len(GUESS_WORDS) : GUESS_WORDS[i] = word

\* A full row of an Active game holds a word that GUESS_WORDS lacks.
UnlistedFullRow ==
    /\ Active
    /\ currentCol = NUM_COLS
    /\ ~InGuessWords(getCurrentGuess(Cur))

AnswerWords == {ANSWER_WORDS[i] : i \in 1..Len(ANSWER_WORDS)}

\* C13: initGame, from any reachable state, sets currentRow and currentCol
\* to 0 and isGameOver and hasUsedHint to false, empties keyStatuses and
\* sets secretWord to a word of ANSWER_WORDS, and leaves gamesPlayed,
\* gamesWon and currentStreak as they were, also when the game it replaces
\* was still Active.
C13_InitGameResetsAndKeepsCounters ==
    \A randomIndex \in RandomIndexes :
        LET t == initGame(Cur, randomIndex)
        IN  /\ t.currentRow = 0
            /\ t.currentCol = 0
            /\ ~t.isGameOver
            /\ ~t.hasUsedHint
            /\ t.keyStatuses = NoStatuses
            /\ t.secretWord \in AnswerWords
            /\ t.secretWord = ANSWER_WORDS[randomIndex + 1]
            /\ t.gamesPlayed = gamesPlayed
            /\ t.gamesWon = gamesWon
            /\ t.currentStreak = currentStreak

\* The second game, after a game won, is under way in its third row with
\* the hint used and keys coloured: a restart now abandons it.
C13_Witness ==
    /\ Active
    /\ gamesPlayed = 1
    /\ currentStreak = 1
    /\ currentRow = 2
    /\ currentCol = 3
    /\ hasUsedHint
    /\ keyStatuses # NoStatuses
    /\ initGame(Cur, 0).currentStreak = 1

\* C14: a key event after the game is over, a click on any on-screen key or
\* a keydown of any key, leaves currentRow, currentCol, isGameOver,
\* hasUsedHint, keyStatuses, gamesPlayed, gamesWon and currentStreak (and
\* the secret and the tiles) as they were.
C14_KeysAfterOverChangeNothing ==
    isGameOver =>
        \A t \in AfterAnyKey :
            /\ t.currentRow = currentRow
            /\ t.currentCol = currentCol
            /\ t.isGameOver
            /\ t.hasUsedHint = hasUsedHint
            /\ t.keyStatuses = keyStatuses
            /\ t.gamesPlayed = gamesPlayed
            /\ t.gamesWon = gamesWon
            /\ t.currentStreak = currentStreak
            /\ t.secretWord = secretWord
            /\ t.rowTiles = rowTiles

\* The game is won with the hint used and the winning row still full: an
\* Enter key that reached submitGuess now would count the win a second time.
C14_Witness ==
    /\ isGameOver
    /\ message = YouWon
    /\ hasUsedHint
    /\ gamesWon = 1
    /\ currentCol = NUM_COLS
    /\ submitGuess(Cur).gamesWon = 2

\* What C16 says of addLetter and deleteLetter one at a time, in an Active
\* game: addLetter below column NUM_COLS writes the letter at
\* (currentRow, currentCol) and adds 1 to currentCol, and changes nothing in
\* column NUM_COLS; deleteLetter above column 0 takes 1 from currentCol and
\* empties that tile, and changes nothing in column 0; neither changes
\* currentRow or anything else, and the keys reach them through handleKey.
AddAndDeleteOneStep ==
    /\ \A letter \in Letters :
          /\ addLetter(Cur, letter) =
                IF currentCol < NUM_COLS
                THEN [Cur EXCEPT !.rowTiles[currentCol + 1] = letter,
                                 !.currentCol = currentCol + 1]
                ELSE Cur
          /\ handleKey(Cur, letter) = addLetter(Cur, letter)
    /\ deleteLetter(Cur) =
          IF currentCol > 0
          THEN [Cur EXCEPT !.rowTiles[currentCol] = "",
                           !.currentCol = currentCol - 1]
          ELSE Cur
    /\ handleKey(Cur, "Backspace") = deleteLetter(Cur)

\* C16 as stated: the above, and addLetter followed at once by deleteLetter
\* gives back currentCol and the tiles of the row, in every Active state.
C16_AsStated ==
    Active =>
        /\ AddAndDeleteOneStep
        /\ \A letter \in Letters :
              LET t == deleteLetter(addLetter(Cur, letter))
              IN  t.currentCol = currentCol /\ t.rowTiles = rowTiles

\* C16 amended: the above, and addLetter followed at once by deleteLetter
\* gives back currentCol and the tiles of the row when currentCol < NUM_COLS;
\* on a full row addLetter changes nothing and deleteLetter then removes the
\* last letter of the row.
C16_AddThenDeleteBelowFullRow ==
    Active =>
        /\ AddAndDeleteOneStep
        /\ \A letter \in Letters :
              LET t == deleteLetter(addLetter(Cur, letter))
              IN  IF currentCol < NUM_COLS
                  THEN t = Cur
                  ELSE /\ t.currentCol = NUM_COLS - 1
                       /\ t.rowTiles = [rowTiles EXCEPT ![NUM_COLS] = ""]

\* Three letters stand in the second row: a fourth can be added and taken
\* back.
C16_Witness ==
    /\ Active
    /\ currentRow = 1
    /\ currentCol = 3
    /\ rowTiles = <<"B", "A", "B", "", "">>
    /\ addLetter(Cur, "A").rowTiles = <<"B", "A", "B", "A", "">>
    /\ deleteLetter(addLetter(Cur, "A")).rowTiles = rowTiles

\* C17: in every reachable state of an Active game the tiles of the current
\* row below currentCol hold one letter each and the tiles from currentCol on
\* are empty; so on a full row getCurrentGuess gives a word of NUM_COLS
\* letters, the texts of the tiles in order, and submitGuess takes that
\* word as valid and evaluates it.  While the row stays the current one, no
\* step changes a tile below the cursor: the row holds the letters entered,
\* less the ones deleted, in the order of entry.
C17_RowHoldsTheLettersEntered ==
    /\ [](Active =>
            /\ \A col \in 1..NUM_COLS :
                  IF col <= currentCol
                  THEN rowTiles[col] \in UpperLetters
                  ELSE rowTiles[col] = ""
            /\ Len(getCurrentGuess(Cur)) = currentCol
            /\ \A col \in 1..currentCol : getCurrentGuess(Cur)[col] = rowTiles[col]
            /\ currentCol = NUM_COLS =>
                  /\ isValidGuess(getCurrentGuess(Cur))
                  /\ \A t \in AfterEnter :
                        /\ t.message # NotInWordList
                        /\ \A col \in 1..NUM_COLS :
                              Rank(t.keyStatuses, rowTiles[col]) >=
                                  priority[evaluateGuess(rowTiles, secretWord)[col]])
    /\ [][ (Active /\ ~isGameOver' /\ currentRow' = currentRow) =>
              \A col \in 1..Min(currentCol, currentCol') :
                  rowTiles'[col] = rowTiles[col] ]_vars

\* A full row typed with a correction (the fifth letter deleted and typed
\* again, or any other way to this row) on the third row.
C17_Witness ==
    /\ Active
    /\ currentRow = 2
    /\ currentCol = NUM_COLS
    /\ getCurrentGuess(Cur) = <<"B", "A", "A", "B", "A">>
    /\ rowTiles[NUM_COLS] = "A"

Counters == <<gamesPlayed, gamesWon, currentStreak>>

\* C18: whatever the keys, hint clicks and restarts, endGame runs at most
\* once between two initGame calls: the counters change only in a step
\* that takes the game from Active to over, which adds exactly 1 to
\* gamesPlayed and at most 1 to gamesWon, and a game that is over stays over,
\* its counters untouched, until initGame; and in every reachable state
\* currentStreak <= gamesWon <= gamesPlayed.
C18_EndGameOncePerGame ==
    /\ [](/\ 0 <= currentStreak
          /\ currentStreak <= gamesWon
          /\ gamesWon <= gamesPlayed
          /\ isGameOver =>
                \A t \in AfterAnyKey \cup {handleHint(Cur)} :
                    /\ t.isGameOver
                    /\ t.gamesPlayed = gamesPlayed
                    /\ t.gamesWon = gamesWon
                    /\ t.currentStreak = currentStreak)
    /\ [][ /\ (Counters' # Counters) =>
                 /\ ~isGameOver
                 /\ isGameOver'
                 /\ gamesPlayed' = gamesPlayed + 1
                 /\ gamesWon' \in {gamesWon, gamesWon + 1}
                 /\ currentStreak' = IF gamesWon' = gamesWon THEN 0
                                     ELSE currentStreak + 1
           /\ (~isGameOver /\ isGameOver') => gamesPlayed' = gamesPlayed + 1
           /\ (isGameOver /\ ~isGameOver') => RestartClick ]_vars

\* Two games are over, the first one lost and the second one won.
C18_Witness ==
    /\ isGameOver
    /\ gamesPlayed = 2
    /\ gamesWon = 1
    /\ currentStreak = 1
    /\ message = YouWon

\* C19 as stated: once endGame has shown the win or loss message it stays on
\* display until the next initGame, whatever clearMessage callbacks are
\* still pending; and a callback changes no variable of the game but the
\* message.
C19_AsStated ==
    /\ isGameOver => message \in {YouWon, YouLost(secretWord)}
    /\ pendingClears > 0 =>
          clearMessage(Cur) = [Cur EXCEPT !.message = NoMessage]

\* The state a keydown of `key` leaves the script in.
KeydownAfter(key) == RunKeydownListeners(Cur, key, keydownListeners)


\* The letter keys of KeydownKeys.
LetterKeydowns == {key \in KeydownKeys : IsLetterKey(key)}

\* C20: after the page has loaded, and after any number of restarts, one
\* keydown listener is attached to the document; so in an Active game one
\* keydown of a letter below column NUM_COLS writes that letter, in upper
\* case, and adds exactly 1 to currentCol, and one keydown of Enter does
\* what one call of submitGuess does.
C20_OneKeydownListener ==
    /\ hasAttachedKeyboardListeners = loaded
    /\ keydownListeners = IF loaded THEN 1 ELSE 0
    /\ Active =>
          /\ KeydownAfter("Enter") = submitGuess(Cur)
          /\ currentCol < NUM_COLS =>
                \A key \in LetterKeydowns :
                    /\ KeydownAfter(key).currentCol = currentCol + 1
                    /\ KeydownAfter(key).rowTiles =
                          [rowTiles EXCEPT ![currentCol + 1] = toUpperCase(key)]

\* The second game at least (one is won) is under way, two letters typed in
\* its second row.
C20_Witness ==
    /\ Active
    /\ gamesPlayed = 1
    /\ gamesWon = 1
    /\ keydownListeners = 1
    /\ currentRow = 1
    /\ currentCol = 2
    /\ KeydownAfter("a").currentCol = 3

=============================================================================
